---- MODULE Spec2Model ----
(***************************************************************************)
(* Order-to-inventory reconciliation engine of sara_kas: main.py (the run),*)
(* stock_service.py (acceptance, fulfillment and cancellation batches),    *)
(* stock_repository.py (the storage operations) and the async_retry        *)
(* wrapper of stock_repository.py and kaspi.py.                            *)
(*                                                                         *)
(* The coroutines of one batch interleave at their await points; every     *)
(* action below is one such step, from one suspension point to the next.   *)
(* The database is the only state shared between the coroutines.           *)
(***************************************************************************)
EXTENDS Integers, Sequences, FiniteSets, TLC

(***************************************************************************)
(* Bounds of the model.                                                    *)
(***************************************************************************)
NumOrders == 2        \* orders the marketplace feed knows
MaxQty == 2           \* largest initial quantity of an inventory row
MaxFaults == 1        \* storage errors injected in one behaviour
MaxOver == 1          \* orders of a large batch beyond the concurrency cap
MaxRetries == 3       \* largest "retries" argument of async_retry

(***************************************************************************)
(* Program constants.                                                      *)
(***************************************************************************)
CONCURRENT_ORDER_LIMIT == 5
MAX_ATTEMPTS == 5
max_retries == 2

OrderIds == 1..NumOrders
Products == {"P1", "P2"}
Stocks == {"PP5", "PP7"}
Rows == Products \X Stocks

(***************************************************************************)
(* The marketplace feed.  An order's line items and pickup point do not    *)
(* change during a run.  Order 1 has two line items, every other order one.*)
(***************************************************************************)
Entry(code, quantity) == [code |-> code, quantity |-> quantity]

FeedEntries(o) ==
    IF o = 1 THEN << Entry("P1", 1), Entry("P2", 1) >>
             ELSE << Entry("P1", 2) >>

\* order["attributes"]["pickupPointId"][-3:]: every order of the feeds of
\* a run is picked up at PP5.
PickupStock(o) == "PP5"

\* The ascending sequence of the elements of a finite set of integers.
RECURSIVE SortedSeq(_)
SortedSeq(S) ==
    IF S = {} THEN << >>
    ELSE LET m == CHOOSE x \in S : \A y \in S : x <= y
         IN  << m >> \o SortedSeq(S \ {m})

\* A feed page lists each order once.
Batches == { SortedSeq(S) : S \in SUBSET OrderIds }

\* Quantity of product p that order o asks for from stock s.
RECURSIVE SumQty(_, _)
SumQty(items, p) ==
    IF items = << >> THEN 0
    ELSE (IF Head(items).code = p THEN Head(items).quantity ELSE 0)
         + SumQty(Tail(items), p)

VARIABLES
    \* ---- the database
    inventory,              \* stock_inventory.quantity per (product, stock)
    catalog,                \* active products, stocks and inventory rows
    kaspi_orders,           \* order rows by order_id
    kaspi_sold_products,    \* line-item rows by order_id
    kaspi_canceled_orders,  \* number of cancellation records per (order, product)
    \* ---- the running batch (process_orders / cancel_orders_from_*)
    batch_kind,             \* "none", "fulfil" or "cancel"
    tasks,                  \* the sem_task coroutines of the batch
    success, failed,        \* result lists of process_orders
    canceled_ids,           \* result list of a cancellation batch
    \* ---- main()
    pc,                     \* position of main()
    attempt,                \* loop variable of the current retry loop
    accept,                 \* locals of process_new_orders
    new_order_ids,          \* ids accepted in this run
    \* ---- bookkeeping of the verification
    inventory0,             \* the quantities at the start of the run
    faults,                 \* storage errors injected so far
    commit_passes,          \* commit passes begun per order (counted to 2)
    seen_canceled,          \* a pass between attempts listed an accepted id
    before_cancel,          \* the stock when an order's reversal first began
    invoiced,               \* orders for which create_invoice answered True
    short,                  \* orders turned down for insufficient stock while
                            \* the fulfillment loop runs
    exit,                   \* why main() ended
    \* ---- one call through the async_retry wrapper
    retry                   \* locals of wrapper() and the record of its calls

dbVars == << inventory, catalog, kaspi_orders, kaspi_sold_products,
             kaspi_canceled_orders >>
batchVars == << batch_kind, tasks, success, failed, canceled_ids >>
mainVars == << pc, attempt, accept, new_order_ids >>
ghostVars == << inventory0, faults, commit_passes, seen_canceled,
               before_cancel, invoiced, short, exit >>
vars == << dbVars, batchVars, mainVars, ghostVars, retry >>

(***************************************************************************)
(* async_retry: the wrapper around every feed and storage operation.       *)
(***************************************************************************)
\* The kinds of exception the wrapped operation may raise.
Kinds == {"ClientError", "TimeoutError", "SQLAlchemyError", "KeyError"}

\* allowed_exceptions: of the feed calls, of the storage calls, the default.
AllowedSets == { {"ClientError", "TimeoutError"},
                 {"SQLAlchemyError", "TimeoutError"},
                 Kinds }

\* backoff_in_seconds: the default and the value every decorator passes.
Backoffs == {1, 2}

\* No call through the wrapper is being followed.
NoRetry == [pc |-> "idle", retries |-> 0, backoff |-> 0, allowed |-> {},
            attempt |-> 0, delay |-> 0, outcomes |-> << >>, slept |-> << >>,
            error |-> "none"]

\* wrapper() is entered: "attempt = 0; delay = backoff_in_seconds".
RetryCall(retries, backoff_in_seconds, allowed_exceptions) ==
    [pc |-> "call", retries |-> retries, backoff |-> backoff_in_seconds,
     allowed |-> allowed_exceptions, attempt |-> 0,
     delay |-> backoff_in_seconds, outcomes |-> << >>, slept |-> << >>,
     error |-> "none"]

\* Variant: the last retry is given up one failure early.
Exhausted_early(failures, retries) == failures >= retries

\* "if attempt > retries: raise"
Exhausted(failures, retries) == failures > retries

\* "return await func(*args, **kwargs)" with its except clause: the result is
\* returned; an exception of an allowed kind is counted and, once the count
\* is above retries, raised again, the wrapper sleeping otherwise; any other
\* exception leaves the wrapper as it came.
retry_call ==
    /\ retry.pc = "call"
    /\ \E outcome \in {"ok"} \cup Kinds :
          retry' =
             LET called == [retry EXCEPT !.outcomes = Append(@, outcome)] IN
             IF outcome = "ok"
             THEN [called EXCEPT !.pc = "returned"]
             ELSE IF outcome \in retry.allowed
             THEN IF Exhausted(retry.attempt + 1, retry.retries)
                  THEN [called EXCEPT !.attempt = @ + 1, !.pc = "raised",
                                      !.error = outcome]
                  ELSE [called EXCEPT !.attempt = @ + 1, !.pc = "sleep"]
             ELSE [called EXCEPT !.pc = "raised", !.error = outcome]
    /\ UNCHANGED << dbVars, batchVars, mainVars, ghostVars >>

\* "await asyncio.sleep(delay); delay *= 2", then the loop calls again.
retry_sleep ==
    /\ retry.pc = "sleep"
    /\ retry' = [retry EXCEPT !.slept = Append(@, retry.delay),
                              !.delay = @ * 2, !.pc = "call"]
    /\ UNCHANGED << dbVars, batchVars, mainVars, ghostVars >>

(***************************************************************************)
(* Storage.                                                                *)
(***************************************************************************)
\* The products, stocks and inventory rows that are active during a run:
\* every stock and row is, and product P2 is or is not (Product.is_active).
Catalogs ==
    { [products |-> P, stocks |-> Stocks, rows |-> Rows] :
        P \in { Products, Products \ {"P2"} } }

NoOrder == [present |-> FALSE, stock_name |-> "", invoice_generated |-> FALSE,
            is_canceled |-> FALSE]

\* A storage call either completes or ends in SQLAlchemyError; at most
\* MaxFaults calls of a behaviour fail.
Outcomes == IF faults < MaxFaults THEN {TRUE, FALSE} ELSE {TRUE}
Charge(ok) == faults' = IF ok THEN faults ELSE faults + 1

\* A session left by "async with SessionLocalAsync() as session" is closed:
\* what it changed is stored only if session.commit() was awaited before.
SessionExit(stored, pending, committed) ==
    IF committed THEN pending ELSE stored

\* get_stock_quantity: the quantity of the active inventory row of an active
\* stock, 0 when there is none, 0 when the query fails.
get_stock_quantity(product_code, stock_name, ok) ==
    IF ~ok THEN 0
    ELSE IF /\ stock_name \in catalog.stocks
            /\ << product_code, stock_name >> \in catalog.rows
         THEN inventory[<< product_code, stock_name >>]
         ELSE 0

\* Variant: the session is committed and the check of new_quantity is missing.
update_stock_committed_unguarded(product_code, new_quantity, stock_name) ==
    IF stock_name \notin catalog.stocks THEN inventory
    ELSE IF product_code \notin catalog.products THEN inventory
    ELSE IF << product_code, stock_name >> \notin catalog.rows THEN inventory
    ELSE SessionExit(inventory,
                     [inventory EXCEPT ![<< product_code, stock_name >>] = new_quantity],
                     TRUE)

\* Variant: the session is committed before it is left.
update_stock_committed(product_code, new_quantity, stock_name) ==
    IF stock_name \notin catalog.stocks THEN inventory
    ELSE IF product_code \notin catalog.products THEN inventory
    ELSE IF << product_code, stock_name >> \notin catalog.rows THEN inventory
    ELSE IF new_quantity < 0 THEN inventory
    ELSE SessionExit(inventory,
                     [inventory EXCEPT ![<< product_code, stock_name >>] = new_quantity],
                     TRUE)

\* update_stock_quantity_and_log: the stored quantities after the call.  The
\* function assigns inventory.quantity inside its own session and returns
\* without awaiting session.commit().
update_stock_quantity_and_log(product_code, new_quantity, stock_name) ==
    IF stock_name \notin catalog.stocks THEN inventory
    ELSE IF product_code \notin catalog.products THEN inventory
    ELSE IF << product_code, stock_name >> \notin catalog.rows THEN inventory
    ELSE IF new_quantity < 0 THEN inventory
    ELSE SessionExit(inventory,
                     [inventory EXCEPT ![<< product_code, stock_name >>] = new_quantity],
                     FALSE)

\* Variant: every order counts as recorded.
is_order_processed_always(order_id, ok) == TRUE

\* is_order_processed: whether the order row exists, False when the query fails.
is_order_processed(order_id, ok) ==
    IF ok THEN kaspi_orders[order_id].present ELSE FALSE

\* is_order_canceled: the row's is_canceled, False without a row or when the
\* query fails.
is_order_canceled(order_id, ok) ==
    IF ok THEN kaspi_orders[order_id].present /\ kaspi_orders[order_id].is_canceled
          ELSE FALSE

(***************************************************************************)
(* The batch coordinator: sem_task of process_orders and of                *)
(* cancel_orders_from_archive / cancel_orders_from_returned_archive.       *)
(***************************************************************************)
NewTask(o) == [order |-> o, pc |-> "sem", products |-> << >>, idx |-> 1,
               new_quantity |-> 0, stock_name |-> "", raised |-> FALSE]

TaskIds == DOMAIN tasks

\* Coroutines inside "async with sem".
Active == { t \in TaskIds : tasks[t].pc \notin {"sem", "done"} }

AllDone == \A t \in TaskIds : tasks[t].pc = "done"

Add(list, id) == [list EXCEPT ![id] = @ + 1]
Empty == [o \in DOMAIN kaspi_orders |-> 0]
Ids(list) == { o \in DOMAIN list : list[o] > 0 }

\* Variant: the coroutine enters without the semaphore.
sem_acquire_uncapped(t) ==
    /\ batch_kind \in {"fulfil", "cancel"}
    /\ tasks[t].pc = "sem"
    /\ tasks' = [tasks EXCEPT ![t].pc = "is_order_processed"]
    /\ UNCHANGED << dbVars, batch_kind, success, failed, canceled_ids,
                    mainVars, ghostVars, retry >>

\* async with sem: the semaphore wakes its waiters in the order they arrived,
\* which is the order gather() started them in.
sem_acquire(t) ==
    /\ batch_kind \in {"fulfil", "cancel"}
    /\ tasks[t].pc = "sem"
    /\ \A u \in TaskIds : u < t => tasks[u].pc # "sem"
    /\ Cardinality(Active) < CONCURRENT_ORDER_LIMIT
    /\ tasks' = [tasks EXCEPT ![t].pc = "is_order_processed"]
    /\ UNCHANGED << dbVars, batch_kind, success, failed, canceled_ids,
                    mainVars, ghostVars, retry >>


(***************************************************************************)
(* The fulfillment pipeline: process_single_order inside sem_task.         *)
(***************************************************************************)
FulfilFrame ==
    UNCHANGED << catalog, kaspi_canceled_orders, batch_kind, canceled_ids,
                 mainVars, inventory0, seen_canceled, before_cancel, exit,
                 retry >>

\* Variant: a False result is not recorded.
pso_return_drops_failure(t, result) ==
    /\ tasks' = [tasks EXCEPT ![t].pc = "done"]
    /\ success' = IF result THEN Add(success, tasks[t].order) ELSE success
    /\ failed' = failed

\* sem_task of process_orders: the pipeline's result puts the order id on
\* success or on failed, then the semaphore is released.
pso_return(t, result) ==
    /\ tasks' = [tasks EXCEPT ![t].pc = "done"]
    /\ success' = IF result THEN Add(success, tasks[t].order) ELSE success
    /\ failed' = IF result THEN failed ELSE Add(failed, tasks[t].order)

\* Variant: the exception leaves sem_task and the order is on neither list.
pso_except_escapes(t) ==
    /\ tasks' = [tasks EXCEPT ![t] = [@ EXCEPT !.pc = "done", !.raised = TRUE]]
    /\ success' = success
    /\ failed' = failed

\* "except Exception as e: ... return False": an exception of the pipeline
\* ends in process_single_order, and sem_task puts the order id on failed.
pso_except(t) ==
    /\ tasks' = [tasks EXCEPT ![t] = [@ EXCEPT !.pc = "done", !.raised = TRUE]]
    /\ success' = success
    /\ failed' = Add(failed, tasks[t].order)

\* The idempotency gate: "if await is_order_processed(order_id): return False".
pso_is_order_processed(t) ==
    /\ batch_kind = "fulfil"
    /\ tasks[t].pc = "is_order_processed"
    /\ \E ok \in Outcomes :
          /\ Charge(ok)
          /\ IF is_order_processed(tasks[t].order, ok)
             THEN pso_return(t, FALSE)
             ELSE /\ tasks' = [tasks EXCEPT ![t].pc = "get_order_entries"]
                  /\ UNCHANGED << success, failed >>
    /\ UNCHANGED << inventory, kaspi_orders, kaspi_sold_products, commit_passes >>
    /\ UNCHANGED << short, invoiced >>
    /\ FulfilFrame

\* get_order_entries: the order's line items, [] on a feed error or a
\* response other than 200/201; then the stock name is cut from the pickup
\* point.  With no line item both loops are skipped.
pso_get_order_entries(t) ==
    /\ batch_kind = "fulfil"
    /\ tasks[t].pc = "get_order_entries"
    /\ \E products \in { FeedEntries(tasks[t].order), << >> } :
          tasks' = [tasks EXCEPT ![t] =
                      [@ EXCEPT !.products = products,
                                !.stock_name = PickupStock(tasks[t].order),
                                !.idx = 1,
                                !.pc = IF products = << >> THEN "save_order"
                                                           ELSE "check"]]
    /\ UNCHANGED << inventory, kaspi_orders, kaspi_sold_products, success,
                    failed, faults, commit_passes >>
    /\ UNCHANGED << short, invoiced >>
    /\ FulfilFrame

\* Variant: the comparison is off by one.
InsufficientStock_off_by_one(current_quantity, order_quantity) ==
    current_quantity < order_quantity - 1

\* "if current_quantity < order_quantity"
InsufficientStock(current_quantity, order_quantity) ==
    current_quantity < order_quantity

\* The availability pass: one unlocked read per line item; the first short
\* item ends the pipeline with False.
pso_check(t) ==
    /\ batch_kind = "fulfil"
    /\ tasks[t].pc = "check"
    /\ LET entry == tasks[t].products[tasks[t].idx] IN
       \E ok \in Outcomes :
          /\ Charge(ok)
          /\ IF InsufficientStock(
                    get_stock_quantity(entry.code, tasks[t].stock_name, ok),
                    entry.quantity)
             THEN /\ pso_return(t, FALSE)
                  /\ short' = short \cup {tasks[t].order}
             ELSE /\ tasks' = [tasks EXCEPT ![t] =
                       IF @.idx < Len(@.products)
                       THEN [@ EXCEPT !.idx = @ + 1]
                       ELSE [@ EXCEPT !.idx = 1, !.pc = "commit_read"]]
                  /\ UNCHANGED << success, failed, short >>
    /\ UNCHANGED << inventory, kaspi_orders, kaspi_sold_products, commit_passes >>
    /\ UNCHANGED << invoiced >>
    /\ FulfilFrame

\* The commit pass, first half: read again and subtract.
pso_commit_read(t) ==
    /\ batch_kind = "fulfil"
    /\ tasks[t].pc = "commit_read"
    /\ LET entry == tasks[t].products[tasks[t].idx] IN
       \E ok \in Outcomes :
          /\ Charge(ok)
          /\ tasks' = [tasks EXCEPT ![t] =
                [@ EXCEPT !.new_quantity =
                              get_stock_quantity(entry.code, tasks[t].stock_name, ok)
                              - entry.quantity,
                          !.pc = "update"]]
    /\ commit_passes' = IF tasks[t].idx = 1
                        THEN [commit_passes EXCEPT ![tasks[t].order] =
                                 IF @ < 2 THEN @ + 1 ELSE @]
                        ELSE commit_passes
    /\ UNCHANGED << inventory, kaspi_orders, kaspi_sold_products, success, failed >>
    /\ UNCHANGED << short, invoiced >>
    /\ FulfilFrame

\* The commit pass, second half: update_stock_quantity_and_log.  A storage
\* error that outlives the retries is caught by process_single_order.
pso_update(t) ==
    /\ batch_kind = "fulfil"
    /\ tasks[t].pc = "update"
    /\ LET entry == tasks[t].products[tasks[t].idx] IN
       \E ok \in Outcomes :
          /\ Charge(ok)
          /\ IF ok
             THEN /\ inventory' = update_stock_quantity_and_log(
                                      entry.code, tasks[t].new_quantity,
                                      tasks[t].stock_name)
                  /\ tasks' = [tasks EXCEPT ![t] =
                        IF @.idx < Len(@.products)
                        THEN [@ EXCEPT !.idx = @ + 1, !.pc = "commit_read"]
                        ELSE [@ EXCEPT !.pc = "save_order"]]
                  /\ UNCHANGED << success, failed >>
             ELSE /\ pso_except(t)
                  /\ UNCHANGED inventory
    /\ UNCHANGED << kaspi_orders, kaspi_sold_products, commit_passes >>
    /\ UNCHANGED << short, invoiced >>
    /\ FulfilFrame

SoldRow(entry) == [code |-> entry.code, quantity |-> entry.quantity,
                   waybill |-> FALSE]

\* save_order: header and line items in one transaction; order_id is unique,
\* so a second insert of the same order fails like any other storage error.
pso_save_order(t) ==
    /\ batch_kind = "fulfil"
    /\ tasks[t].pc = "save_order"
    /\ \E ok \in Outcomes :
          /\ Charge(ok)
          /\ IF ok /\ ~kaspi_orders[tasks[t].order].present
             THEN /\ kaspi_orders' = [kaspi_orders EXCEPT ![tasks[t].order] =
                        [present |-> TRUE, stock_name |-> tasks[t].stock_name,
                         invoice_generated |-> FALSE, is_canceled |-> FALSE]]
                  /\ kaspi_sold_products' =
                        [kaspi_sold_products EXCEPT ![tasks[t].order] =
                            [i \in DOMAIN tasks[t].products |->
                                SoldRow(tasks[t].products[i])]]
                  /\ tasks' = [tasks EXCEPT ![t].pc = "create_invoice"]
                  /\ UNCHANGED << success, failed >>
             ELSE /\ pso_except(t)
                  /\ UNCHANGED << kaspi_orders, kaspi_sold_products >>
    /\ UNCHANGED << inventory, commit_passes >>
    /\ UNCHANGED << short, invoiced >>
    /\ FulfilFrame

\* create_invoice answers True or False; the pipeline returns that.
pso_create_invoice(t) ==
    /\ batch_kind = "fulfil"
    /\ tasks[t].pc = "create_invoice"
    /\ \E invoice_result \in BOOLEAN :
          /\ pso_return(t, invoice_result)
          /\ invoiced' = IF invoice_result THEN invoiced \cup {tasks[t].order}
                                           ELSE invoiced
    /\ UNCHANGED << inventory, kaspi_orders, kaspi_sold_products, faults,
                    commit_passes >>
    /\ UNCHANGED << short >>
    /\ FulfilFrame


(***************************************************************************)
(* The cancellation pipeline: cancel_single_order inside sem_task, with    *)
(* process_product_cancellation for each persisted line item.              *)
(***************************************************************************)
CancelFrame ==
    UNCHANGED << catalog, kaspi_sold_products, batch_kind, success, failed,
                 mainVars, inventory0, commit_passes, seen_canceled, invoiced,
                 short, exit, retry >>

NotBegun == [r \in Rows |-> -1]

\* sem_task of the cancellation batches: whatever cancel_single_order did, the
\* order id goes to canceled_ids, then the semaphore is released.
cso_return(t) ==
    /\ tasks' = [tasks EXCEPT ![t].pc = "done"]
    /\ canceled_ids' = Add(canceled_ids, tasks[t].order)

\* "except Exception as e": an exception of the pipeline ends in
\* cancel_single_order; sem_task goes on as after a return.
cso_except(t) ==
    /\ tasks' = [tasks EXCEPT ![t] = [@ EXCEPT !.pc = "done", !.raised = TRUE]]
    /\ canceled_ids' = Add(canceled_ids, tasks[t].order)

\* "if not await is_order_processed(order_id): return"
cso_is_order_processed(t) ==
    /\ batch_kind = "cancel"
    /\ tasks[t].pc = "is_order_processed"
    /\ \E ok \in Outcomes :
          /\ Charge(ok)
          /\ IF ~is_order_processed(tasks[t].order, ok)
             THEN cso_return(t)
             ELSE /\ tasks' = [tasks EXCEPT ![t].pc = "is_order_canceled"]
                  /\ UNCHANGED canceled_ids
    /\ UNCHANGED << inventory, kaspi_orders, kaspi_canceled_orders >>
    /\ UNCHANGED before_cancel
    /\ CancelFrame

\* "if await is_order_canceled(order_id): return"
cso_is_order_canceled(t) ==
    /\ batch_kind = "cancel"
    /\ tasks[t].pc = "is_order_canceled"
    /\ \E ok \in Outcomes :
          /\ Charge(ok)
          /\ IF is_order_canceled(tasks[t].order, ok)
             THEN cso_return(t)
             ELSE /\ tasks' = [tasks EXCEPT ![t].pc = "get_order_products"]
                  /\ UNCHANGED canceled_ids
    /\ UNCHANGED << inventory, kaspi_orders, kaspi_canceled_orders >>
    /\ UNCHANGED before_cancel
    /\ CancelFrame

\* get_order_products: the persisted line items; a storage error is raised
\* and caught by cancel_single_order; no line item ends the pipeline.
cso_get_order_products(t) ==
    /\ batch_kind = "cancel"
    /\ tasks[t].pc = "get_order_products"
    /\ \E ok \in Outcomes :
          /\ Charge(ok)
          /\ IF ~ok THEN cso_except(t)
             ELSE IF kaspi_sold_products[tasks[t].order] # << >>
             THEN /\ tasks' = [tasks EXCEPT ![t] =
                        [@ EXCEPT !.products = kaspi_sold_products[tasks[t].order],
                                  !.idx = 1, !.pc = "ppc_begin"]]
                  /\ UNCHANGED canceled_ids
             ELSE cso_return(t)
    /\ UNCHANGED << inventory, kaspi_orders, kaspi_canceled_orders >>
    /\ before_cancel' =
          IF before_cancel[tasks[t].order] = NotBegun /\ tasks'[t].pc = "ppc_begin"
          THEN [before_cancel EXCEPT ![tasks[t].order] = inventory]
          ELSE before_cancel
    /\ CancelFrame

\* for product_code, quantity, product_name in products: the task after one
\* call of process_product_cancellation has returned.
ppc_next(task) ==
    IF task.idx < Len(task.products)
    THEN [task EXCEPT !.idx = @ + 1, !.pc = "ppc_begin"]
    ELSE [task EXCEPT !.pc = "mark_order_as_canceled"]

\* The stock names "SELECT stock_name FROM kaspi_orders ko JOIN
\* kaspi_sold_products ksp ... WHERE ksp.product_code = :product_code LIMIT 1"
\* may answer: that of any order holding a line item of the product.
StockNamesOf(product_code) ==
    { kaspi_orders[o].stock_name :
        o \in { x \in DOMAIN kaspi_orders :
                  /\ kaspi_orders[x].present
                  /\ \E i \in DOMAIN kaspi_sold_products[x] :
                        kaspi_sold_products[x][i].code = product_code } }

\* process_product_cancellation up to get_product_id: the session opens,
\* save_canceled_order adds the record to it, the stock name is selected and
\* the product looked up.  A product that is missing or inactive ends the call
\* before any commit; a storage error is raised to cancel_single_order.
ppc_begin(t) ==
    /\ batch_kind = "cancel"
    /\ tasks[t].pc = "ppc_begin"
    /\ LET row == tasks[t].products[tasks[t].idx] IN
       \E ok \in Outcomes :
          /\ Charge(ok)
          /\ IF ~ok
             THEN cso_except(t)
             ELSE /\ UNCHANGED canceled_ids
                  /\ IF row.code \notin catalog.products
                     THEN tasks' = [tasks EXCEPT ![t] = ppc_next(@)]
                     ELSE \E stock_name \in StockNamesOf(row.code) :
                            tasks' = [tasks EXCEPT ![t] =
                                        [@ EXCEPT !.stock_name = stock_name,
                                                  !.pc = "ppc_is_order_canceled"]]
    /\ UNCHANGED << inventory, kaspi_orders, kaspi_canceled_orders >>
    /\ UNCHANGED before_cancel
    /\ CancelFrame

\* The second look at the flag: "if is_canceled: return", before any commit.
ppc_is_order_canceled(t) ==
    /\ batch_kind = "cancel"
    /\ tasks[t].pc = "ppc_is_order_canceled"
    /\ \E ok \in Outcomes :
          /\ Charge(ok)
          /\ tasks' = [tasks EXCEPT ![t] =
                IF is_order_canceled(@.order, ok)
                THEN ppc_next(@)
                ELSE [@ EXCEPT !.pc = "ppc_get_stock_quantity"]]
    /\ UNCHANGED << inventory, kaspi_orders, kaspi_canceled_orders, canceled_ids >>
    /\ UNCHANGED before_cancel
    /\ CancelFrame

\* get_stock_quantity(..., for_update=True): the row lock is taken in the
\* reading session and goes when that session closes, before the function
\* returns; new_quantity = current_quantity + quantity.
ppc_get_stock_quantity(t) ==
    /\ batch_kind = "cancel"
    /\ tasks[t].pc = "ppc_get_stock_quantity"
    /\ LET row == tasks[t].products[tasks[t].idx] IN
       \E ok \in Outcomes :
          /\ Charge(ok)
          /\ tasks' = [tasks EXCEPT ![t] =
                [@ EXCEPT !.new_quantity =
                              get_stock_quantity(row.code, tasks[t].stock_name, ok)
                              + row.quantity,
                          !.pc = "ppc_update"]]
    /\ UNCHANGED << inventory, kaspi_orders, kaspi_canceled_orders, canceled_ids >>
    /\ UNCHANGED before_cancel
    /\ CancelFrame

\* update_stock_quantity_and_log(product_code, new_quantity, ...,'return').
ppc_update(t) ==
    /\ batch_kind = "cancel"
    /\ tasks[t].pc = "ppc_update"
    /\ LET row == tasks[t].products[tasks[t].idx] IN
       \E ok \in Outcomes :
          /\ Charge(ok)
          /\ IF ok
             THEN /\ inventory' = update_stock_quantity_and_log(
                                      row.code, tasks[t].new_quantity,
                                      tasks[t].stock_name)
                  /\ tasks' = [tasks EXCEPT ![t].pc = "ppc_commit"]
                  /\ UNCHANGED canceled_ids
             ELSE /\ cso_except(t)
                  /\ UNCHANGED inventory
    /\ UNCHANGED << kaspi_orders, kaspi_canceled_orders >>
    /\ UNCHANGED before_cancel
    /\ CancelFrame

\* "await session.commit()": the cancellation record of the line item is stored.
ppc_commit(t) ==
    /\ batch_kind = "cancel"
    /\ tasks[t].pc = "ppc_commit"
    /\ LET row == tasks[t].products[tasks[t].idx] IN
       \E ok \in Outcomes :
          /\ Charge(ok)
          /\ IF ok
             THEN /\ kaspi_canceled_orders' =
                        [kaspi_canceled_orders EXCEPT
                            ![<< tasks[t].order, row.code >>] = @ + 1]
                  /\ tasks' = [tasks EXCEPT ![t] = ppc_next(@)]
                  /\ UNCHANGED canceled_ids
             ELSE /\ cso_except(t)
                  /\ UNCHANGED kaspi_canceled_orders
    /\ UNCHANGED << inventory, kaspi_orders >>
    /\ UNCHANGED before_cancel
    /\ CancelFrame

\* mark_order_as_canceled, after the loop over the line items.
cso_mark_order_as_canceled(t) ==
    /\ batch_kind = "cancel"
    /\ tasks[t].pc = "mark_order_as_canceled"
    /\ \E ok \in Outcomes :
          /\ Charge(ok)
          /\ IF ok
             THEN /\ kaspi_orders' = [kaspi_orders EXCEPT
                                        ![tasks[t].order].is_canceled = TRUE]
                  /\ cso_return(t)
             ELSE /\ UNCHANGED kaspi_orders
                  /\ cso_except(t)
    /\ UNCHANGED << inventory, kaspi_canceled_orders >>
    /\ UNCHANGED before_cancel
    /\ CancelFrame


(***************************************************************************)
(* The batch functions: the feed page becomes one sem_task per order, and  *)
(* asyncio.gather returns when all of them have ended.                     *)
(***************************************************************************)
StartBatch(kind, orders) ==
    /\ batch_kind' = kind
    /\ tasks' = [i \in 1..Len(orders) |-> NewTask(orders[i])]
    /\ success' = Empty
    /\ failed' = Empty
    /\ canceled_ids' = Empty

EndBatch ==
    /\ batch_kind' = "none"
    /\ tasks' = << >>
    /\ success' = Empty
    /\ failed' = Empty
    /\ canceled_ids' = Empty

\* Variant: all() in place of any().
Interrupted_all(ids, accepted) == \A order_id \in accepted : order_id \in ids

\* "if any(order_id in canceled_ids for order_id in new_order_ids)"
Interrupted(ids, accepted) == \E order_id \in accepted : order_id \in ids

(***************************************************************************)
(* main(): the archive passes.                                             *)
(***************************************************************************)
main_cancel_returned ==
    /\ pc = "cancel_returned"
    /\ \E orders \in Batches : StartBatch("cancel", orders)
    /\ pc' = "in_cancel_returned"
    /\ UNCHANGED << dbVars, attempt, accept, new_order_ids, ghostVars, retry >>

main_cancel_returned_done ==
    /\ pc = "in_cancel_returned"
    /\ AllDone
    /\ EndBatch
    /\ pc' = "cancel_archive"
    /\ UNCHANGED << dbVars, attempt, accept, new_order_ids, ghostVars, retry >>

main_cancel_archive ==
    /\ pc = "cancel_archive"
    /\ \E orders \in Batches : StartBatch("cancel", orders)
    /\ pc' = "in_cancel_archive"
    /\ UNCHANGED << dbVars, attempt, accept, new_order_ids, ghostVars, retry >>

main_cancel_archive_done ==
    /\ pc = "in_cancel_archive"
    /\ AllDone
    /\ EndBatch
    /\ pc' = "process_new_orders"
    /\ UNCHANGED << dbVars, attempt, accept, new_order_ids, ghostVars, retry >>

(***************************************************************************)
(* process_new_orders: the acceptance pass, and main's look at its result. *)
(***************************************************************************)
\* An order of the NEW feed: id 0 stands for an order without id or code,
\* status "" for an order that carries no status.
NewOrder(id, status) == [id |-> id, status |-> status]

NewOrderShapes(o) ==
    { NewOrder(o, "APPROVED_BY_BANK"), NewOrder(o, "ACCEPTED_BY_MERCHANT"),
      NewOrder(o, ""), NewOrder(0, "APPROVED_BY_BANK") }

NewFeeds ==
    UNION { { f \in [1..Len(b) -> UNION { NewOrderShapes(o) : o \in OrderIds }] :
                \A i \in 1..Len(b) : f[i] \in NewOrderShapes(b[i]) } :
            b \in Batches }

\* The locals of process_new_orders; calls counts the accept_order calls made
\* for each order of the feed.
NoAccept == [orders |-> << >>, i |-> 1, attempt |-> 0, success |-> << >>,
             failed |-> << >>, skipped |-> << >>, calls |-> << >>]

Range(seq) == { seq[i] : i \in DOMAIN seq }

main_process_new_orders ==
    /\ pc = "process_new_orders"
    /\ \E new_orders \in NewFeeds :
          accept' = [NoAccept EXCEPT !.orders = new_orders,
                                     !.calls = [i \in DOMAIN new_orders |-> 0]]
    /\ pc' = "accepting"
    /\ UNCHANGED << dbVars, batchVars, attempt, new_order_ids, ghostVars, retry >>

\* "if not order_id or not order_code", and
\* "if order_status and order_status != 'APPROVED_BY_BANK'".
Skipped(order) ==
    \/ order.id = 0
    \/ order.status # "" /\ order.status # "APPROVED_BY_BANK"

\* An order without id or code, or one that carries a status other than
\* APPROVED_BY_BANK, is skipped without a call.
pno_skip ==
    /\ pc = "accepting"
    /\ accept.i <= Len(accept.orders)
    /\ LET order == accept.orders[accept.i] IN
       /\ Skipped(order)
       /\ accept' = [accept EXCEPT !.skipped = Append(@, order.id), !.i = @ + 1]
    /\ UNCHANGED << dbVars, batchVars, pc, attempt, new_order_ids, ghostVars, retry >>

\* Variant: one more call before the order is given up.
AcceptGivenUp_late(failures) == failures > max_retries + 1

\* "attempt += 1; if attempt > max_retries: failed.append(order_id)"
AcceptGivenUp(failures) == failures > max_retries

\* One accept_order call of "while attempt <= max_retries and not accepted":
\* True puts the order on success; False or an exception counts an attempt
\* and, past max_retries, puts the order on failed.
pno_accept_order ==
    /\ pc = "accepting"
    /\ accept.i <= Len(accept.orders)
    /\ LET order == accept.orders[accept.i]
           called == [accept EXCEPT !.calls[accept.i] = @ + 1]
       IN
       /\ ~Skipped(order)
       /\ \E result \in BOOLEAN :
             accept' =
                IF result
                THEN [called EXCEPT !.success = Append(@, order.id),
                                    !.attempt = 0, !.i = @ + 1]
                ELSE IF AcceptGivenUp(accept.attempt + 1)
                THEN [called EXCEPT !.failed = Append(@, order.id),
                                    !.attempt = 0, !.i = @ + 1]
                ELSE [called EXCEPT !.attempt = @ + 1]
    /\ UNCHANGED << dbVars, batchVars, pc, attempt, new_order_ids, ghostVars, retry >>

\* Variant: the loops are entered whether or not an order was accepted.
main_new_orders_result_always ==
    /\ pc = "accepting"
    /\ accept.i > Len(accept.orders)
    /\ accept' = NoAccept
    /\ IF accept.failed # << >>
       THEN /\ pc' = "finished"
            /\ exit' = "accept_failed"
            /\ UNCHANGED << attempt, new_order_ids >>
       ELSE /\ pc' = "process_orders"
            /\ attempt' = 1
            /\ new_order_ids' = Range(accept.success)
            /\ UNCHANGED exit
    /\ UNCHANGED << dbVars, batchVars, inventory0, faults, commit_passes,
                    seen_canceled, before_cancel, invoiced, short, retry >>

\* process_new_orders returns; main ends the run when an acceptance failed,
\* enters the fulfillment loop when one succeeded, and ends otherwise.
main_new_orders_result ==
    /\ pc = "accepting"
    /\ accept.i > Len(accept.orders)
    /\ accept' = NoAccept
    /\ IF accept.failed # << >>
       THEN /\ pc' = "finished"
            /\ exit' = "accept_failed"
            /\ UNCHANGED << attempt, new_order_ids >>
       ELSE IF accept.success # << >>
       THEN /\ pc' = "process_orders"
            /\ attempt' = 1
            /\ new_order_ids' = Range(accept.success)
            /\ UNCHANGED exit
       ELSE /\ pc' = "finished"
            /\ exit' = "no_new_orders"
            /\ UNCHANGED << attempt, new_order_ids >>
    /\ UNCHANGED << dbVars, batchVars, inventory0, faults, commit_passes,
                    seen_canceled, before_cancel, invoiced, short, retry >>

(***************************************************************************)
(* main(): the fulfillment loop, for attempt in range(1, MAX_ATTEMPTS + 1).*)
(***************************************************************************)
\* process_orders: the KASPI_DELIVERY page, one sem_task per order.
process_orders ==
    /\ pc = "process_orders"
    /\ \E orders \in Batches : StartBatch("fulfil", orders)
    /\ pc' = "in_process_orders"
    /\ UNCHANGED << dbVars, attempt, accept, new_order_ids, ghostVars, retry >>

\* Variant: an attempt without success goes back to the acceptance pass.
main_orders_result_reaccepts ==
    /\ pc = "in_process_orders"
    /\ AllDone
    /\ EndBatch
    /\ IF Ids(success) # {}
       THEN /\ pc' = "save_waybill_links"
            /\ attempt' = 1
            /\ short' = {}
       ELSE /\ pc' = "process_new_orders"
            /\ UNCHANGED << attempt, short >>
    /\ UNCHANGED << dbVars, accept, new_order_ids, inventory0, faults,
                    commit_passes, seen_canceled, before_cancel, invoiced, exit,
                    retry >>

\* process_orders returns; "if orders_result.get('success'): break".
main_orders_result ==
    /\ pc = "in_process_orders"
    /\ AllDone
    /\ EndBatch
    /\ IF Ids(success) # {}
       THEN /\ pc' = "save_waybill_links"
            /\ attempt' = 1
            /\ short' = {}
       ELSE /\ pc' = "cancel_between_attempts"
            /\ UNCHANGED << attempt, short >>
    /\ UNCHANGED << dbVars, accept, new_order_ids, inventory0, faults,
                    commit_passes, seen_canceled, before_cancel, invoiced, exit,
                    retry >>

main_cancel_between_attempts ==
    /\ pc = "cancel_between_attempts"
    /\ \E orders \in Batches : StartBatch("cancel", orders)
    /\ pc' = "in_cancel_between_attempts"
    /\ UNCHANGED << dbVars, attempt, accept, new_order_ids, ghostVars, retry >>

\* The pass returns its canceled_ids; an accepted id among them ends the run,
\* otherwise the loop sleeps and goes on, or is exhausted.
main_check_between_attempts ==
    /\ pc = "in_cancel_between_attempts"
    /\ AllDone
    /\ EndBatch
    /\ seen_canceled' = (seen_canceled \/ Ids(canceled_ids) \cap new_order_ids # {})
    /\ IF Interrupted(Ids(canceled_ids), new_order_ids)
       THEN /\ pc' = "finished"
            /\ exit' = "canceled_in_fulfillment"
            /\ short' = {}
            /\ UNCHANGED attempt
       ELSE IF attempt < MAX_ATTEMPTS
       THEN /\ pc' = "process_orders"
            /\ attempt' = attempt + 1
            /\ UNCHANGED << exit, short >>
       ELSE /\ pc' = "save_waybill_links"
            /\ attempt' = 1
            /\ short' = {}
            /\ UNCHANGED exit
    /\ UNCHANGED << dbVars, accept, new_order_ids, inventory0, faults,
                    commit_passes, before_cancel, invoiced, retry >>


(***************************************************************************)
(* main(): the waybill loop.                                               *)
(***************************************************************************)
\* One order of save_waybill_links: the waybill goes onto the order's line
\* items and invoice_generated is set on its row, in one committed session.
save_waybill_order(db, order_id) ==
    [orders |-> IF db.orders[order_id].present
                THEN [db.orders EXCEPT ![order_id].invoice_generated = TRUE]
                ELSE db.orders,
     sold |-> [db.sold EXCEPT ![order_id] =
                  [i \in DOMAIN @ |-> [@[i] EXCEPT !.waybill = TRUE]]]]

RECURSIVE save_waybill_loop(_, _)
save_waybill_loop(db, order_ids) ==
    IF order_ids = << >> THEN db
    ELSE save_waybill_loop(save_waybill_order(db, Head(order_ids)),
                           Tail(order_ids))

\* save_waybill_links, then main's "if waybill_result and any(...): break".
\* The orders of the delivery page that carry a waybill are updated one after
\* the other; a storage error ends the function with [] and leaves the
\* sessions committed before it.  updated_ids holds the orders whose row
\* answered the update.
main_save_waybill_links ==
    /\ pc = "save_waybill_links"
    /\ \E orders \in Batches : \E with_waybill \in SUBSET Range(orders) :
       \E ok \in Outcomes : \E n \in 0..Cardinality(with_waybill) :
          /\ ok <=> (n = Cardinality(with_waybill))
          /\ Charge(ok)
          /\ LET db == save_waybill_loop(
                          [orders |-> kaspi_orders, sold |-> kaspi_sold_products],
                          SubSeq(SortedSeq(with_waybill), 1, n))
                 waybill_result ==
                     IF ok THEN { o \in with_waybill : kaspi_orders[o].present }
                           ELSE {}
             IN  /\ kaspi_orders' = db.orders
                 /\ kaspi_sold_products' = db.sold
                 /\ IF Interrupted(waybill_result, new_order_ids)
                    THEN /\ pc' = "finished"
                         /\ exit' = "waybill_saved"
                    ELSE /\ pc' = "cancel_between_waybill"
                         /\ UNCHANGED exit
    /\ UNCHANGED << inventory, catalog, kaspi_canceled_orders, batchVars,
                    attempt, accept, new_order_ids, inventory0, commit_passes,
                    seen_canceled, before_cancel, invoiced, short, retry >>

main_cancel_between_waybill ==
    /\ pc = "cancel_between_waybill"
    /\ \E orders \in Batches : StartBatch("cancel", orders)
    /\ pc' = "in_cancel_between_waybill"
    /\ UNCHANGED << dbVars, attempt, accept, new_order_ids, ghostVars, retry >>

\* Variant: the waybill loop makes one attempt more.
main_check_between_waybill_once_more ==
    /\ pc = "in_cancel_between_waybill"
    /\ AllDone
    /\ EndBatch
    /\ IF Interrupted(Ids(canceled_ids), new_order_ids)
       THEN /\ pc' = "finished"
            /\ exit' = "canceled_in_waybill"
            /\ UNCHANGED attempt
       ELSE IF attempt < MAX_ATTEMPTS + 1
       THEN /\ pc' = "save_waybill_links"
            /\ attempt' = attempt + 1
            /\ UNCHANGED exit
       ELSE /\ pc' = "finished"
            /\ exit' = "waybill_exhausted"
            /\ UNCHANGED attempt
    /\ UNCHANGED << dbVars, accept, new_order_ids, inventory0, faults,
                    commit_passes, seen_canceled, before_cancel, invoiced,
                    short, retry >>

\* The pass of the waybill loop returns: an accepted id among its canceled_ids
\* ends the run, otherwise the loop sleeps and goes on, or is exhausted.
main_check_between_waybill ==
    /\ pc = "in_cancel_between_waybill"
    /\ AllDone
    /\ EndBatch
    /\ IF Interrupted(Ids(canceled_ids), new_order_ids)
       THEN /\ pc' = "finished"
            /\ exit' = "canceled_in_waybill"
            /\ UNCHANGED attempt
       ELSE IF attempt < MAX_ATTEMPTS
       THEN /\ pc' = "save_waybill_links"
            /\ attempt' = attempt + 1
            /\ UNCHANGED exit
       ELSE /\ pc' = "finished"
            /\ exit' = "waybill_exhausted"
            /\ UNCHANGED attempt
    /\ UNCHANGED << dbVars, accept, new_order_ids, inventory0, faults,
                    commit_passes, seen_canceled, before_cancel, invoiced,
                    short, retry >>

(***************************************************************************)
(* The run.                                                                *)
(***************************************************************************)
Init ==
    /\ inventory \in { q \in [Rows -> 0..MaxQty] :
                          \A r \in Rows : r[2] # "PP5" => q[r] = MaxQty }
    /\ inventory0 = inventory
    /\ catalog \in Catalogs
    /\ kaspi_orders = [o \in OrderIds |-> NoOrder]
    /\ kaspi_sold_products = [o \in OrderIds |-> << >>]
    /\ kaspi_canceled_orders = [r \in OrderIds \X Products |-> 0]
    /\ batch_kind = "none"
    /\ tasks = << >>
    /\ success = Empty
    /\ failed = Empty
    /\ canceled_ids = Empty
    /\ pc = "cancel_returned"
    /\ attempt = 0
    /\ accept = NoAccept
    /\ new_order_ids = {}
    /\ seen_canceled = FALSE
    /\ before_cancel = [o \in OrderIds |-> NotBegun]
    /\ faults = 0
    /\ commit_passes = [o \in OrderIds |-> 0]
    /\ invoiced = {}
    /\ short = {}
    /\ exit = "running"
    /\ retry = NoRetry

FulfilStep(t) ==
    \/ pso_is_order_processed(t)
    \/ pso_get_order_entries(t)
    \/ pso_check(t)
    \/ pso_commit_read(t)
    \/ pso_update(t)
    \/ pso_save_order(t)
    \/ pso_create_invoice(t)

CancelStep(t) ==
    \/ cso_is_order_processed(t)
    \/ cso_is_order_canceled(t)
    \/ cso_get_order_products(t)
    \/ ppc_begin(t)
    \/ ppc_is_order_canceled(t)
    \/ ppc_get_stock_quantity(t)
    \/ ppc_update(t)
    \/ ppc_commit(t)
    \/ cso_mark_order_as_canceled(t)

TaskStep == \E t \in TaskIds : sem_acquire(t) \/ FulfilStep(t) \/ CancelStep(t)

MainStep ==
    \/ main_cancel_returned
    \/ main_cancel_returned_done
    \/ main_cancel_archive
    \/ main_cancel_archive_done
    \/ main_process_new_orders
    \/ pno_skip
    \/ pno_accept_order
    \/ main_new_orders_result
    \/ process_orders
    \/ main_orders_result
    \/ main_cancel_between_attempts
    \/ main_check_between_attempts
    \/ main_save_waybill_links
    \/ main_cancel_between_waybill
    \/ main_check_between_waybill

Next == MainStep \/ TaskStep

Spec == Init /\ [][Next]_vars

(***************************************************************************)
(* One run from a database in which each row of PP5 holds one piece: every *)
(* awaited call returns or raises, and the event loop goes on while main   *)
(* or a coroutine of the batch can take a step.                            *)
(***************************************************************************)
InitRun ==
    /\ Init
    /\ catalog.products = Products
    /\ \A r \in Rows : r[2] = "PP5" => inventory[r] = 1

RunFairness == WF_vars(Next)

SpecRun == InitRun /\ [][Next]_vars /\ RunFairness

(***************************************************************************)
(* One batch larger than the cap.  The feed page holds                     *)
(* CONCURRENT_ORDER_LIMIT + MaxOver orders; the database comes from        *)
(* earlier runs: one of the orders 1..NumOrders is new or recorded, the    *)
(* others are recorded and canceled.  gather() has started one sem_task per order of  *)
(* process_orders, cancel_orders_from_archive or                           *)
(* cancel_orders_from_returned_archive.                                    *)
(***************************************************************************)
CapOrderIds == 1..(CONCURRENT_ORDER_LIMIT + MaxOver)

PastOrder(o, canceled) ==
    [present |-> TRUE, stock_name |-> PickupStock(o),
     invoice_generated |-> TRUE, is_canceled |-> canceled]

InitCap ==
    /\ inventory = [r \in Rows |-> MaxQty]
    /\ inventory0 = inventory
    /\ catalog = [products |-> Products, stocks |-> Stocks, rows |-> Rows]
    /\ \E open \in OrderIds : \E new \in SUBSET {open} :
          /\ kaspi_orders =
                [o \in CapOrderIds |->
                    IF o \in new THEN NoOrder ELSE PastOrder(o, o # open)]
          /\ kaspi_sold_products =
                [o \in CapOrderIds |->
                    IF o \in new THEN << >>
                    ELSE [i \in DOMAIN FeedEntries(o) |-> SoldRow(FeedEntries(o)[i])]]
          /\ kaspi_canceled_orders =
                [r \in CapOrderIds \X Products |->
                    IF r[1] # open /\ SumQty(FeedEntries(r[1]), r[2]) > 0
                    THEN 1 ELSE 0]
    /\ \E at \in {"in_process_orders", "in_cancel_archive", "in_cancel_returned"} :
          /\ pc = at
          /\ batch_kind = IF at = "in_process_orders" THEN "fulfil" ELSE "cancel"
    /\ tasks = [i \in CapOrderIds |-> NewTask(i)]
    /\ success = [o \in CapOrderIds |-> 0]
    /\ failed = [o \in CapOrderIds |-> 0]
    /\ canceled_ids = [o \in CapOrderIds |-> 0]
    /\ attempt = 1
    /\ accept = NoAccept
    /\ new_order_ids = {}
    /\ seen_canceled = FALSE
    /\ before_cancel = [o \in CapOrderIds |-> NotBegun]
    /\ faults = 0
    /\ commit_passes = [o \in CapOrderIds |-> 0]
    /\ invoiced = { o \in CapOrderIds : kaspi_orders[o].present }
    /\ short = {}
    /\ exit = "running"
    /\ retry = NoRetry

NextCap ==
    \/ TaskStep
    \/ main_orders_result
    \/ main_cancel_archive_done
    \/ main_cancel_returned_done

\* The event loop goes on while a coroutine of the batch can take a step,
\* every awaited call returns or raises, and gather() returns when all its
\* coroutines have ended.
CapFairness == WF_vars(NextCap)

SpecCap == InitCap /\ [][NextCap]_vars /\ CapFairness

(***************************************************************************)
(* One archive pass over orders of earlier runs: order 1 was fulfilled     *)
(* from PP5 and order 2 from PP7, and both hold a line item of P1.  The    *)
(* archive page lists one or both orders, or one order twice.              *)
(***************************************************************************)
ArchivePages == (Batches \ {<< >>}) \cup { << o, o >> : o \in OrderIds }

InitArchive ==
    /\ inventory \in [Rows -> 0..MaxQty]
    /\ inventory0 = inventory
    /\ catalog = [products |-> Products, stocks |-> Stocks, rows |-> Rows]
    /\ kaspi_orders =
          [o \in OrderIds |->
              [PastOrder(o, FALSE) EXCEPT
                  !.stock_name = IF o = 1 THEN "PP5" ELSE "PP7"]]
    /\ kaspi_sold_products =
          [o \in OrderIds |->
              [i \in DOMAIN FeedEntries(o) |-> SoldRow(FeedEntries(o)[i])]]
    /\ kaspi_canceled_orders = [r \in OrderIds \X Products |-> 0]
    /\ pc = "in_cancel_archive"
    /\ batch_kind = "cancel"
    /\ \E orders \in ArchivePages :
          tasks = [i \in 1..Len(orders) |-> NewTask(orders[i])]
    /\ success = Empty
    /\ failed = Empty
    /\ canceled_ids = Empty
    /\ attempt = 0
    /\ accept = NoAccept
    /\ new_order_ids = {}
    /\ seen_canceled = FALSE
    /\ before_cancel = [o \in OrderIds |-> NotBegun]
    /\ faults = 0
    /\ commit_passes = [o \in OrderIds |-> 0]
    /\ invoiced = OrderIds
    /\ short = {}
    /\ exit = "running"
    /\ retry = NoRetry

CancelTaskStep == \E t \in TaskIds : sem_acquire(t) \/ CancelStep(t)

NextArchive == CancelTaskStep \/ main_cancel_archive_done

SpecArchive == InitArchive /\ [][NextArchive]_vars

(***************************************************************************)
(* One call through async_retry, for every retries argument up to          *)
(* MaxRetries, each backoff and each set of allowed exceptions; the run    *)
(* itself stands still.                                                    *)
(***************************************************************************)
InitRetry ==
    /\ inventory = [r \in Rows |-> MaxQty]
    /\ inventory0 = inventory
    /\ catalog = [products |-> Products, stocks |-> Stocks, rows |-> Rows]
    /\ kaspi_orders = [o \in OrderIds |-> NoOrder]
    /\ kaspi_sold_products = [o \in OrderIds |-> << >>]
    /\ kaspi_canceled_orders = [r \in OrderIds \X Products |-> 0]
    /\ batch_kind = "none"
    /\ tasks = << >>
    /\ success = Empty
    /\ failed = Empty
    /\ canceled_ids = Empty
    /\ pc = "cancel_returned"
    /\ attempt = 0
    /\ accept = NoAccept
    /\ new_order_ids = {}
    /\ seen_canceled = FALSE
    /\ before_cancel = [o \in OrderIds |-> NotBegun]
    /\ faults = 0
    /\ commit_passes = [o \in OrderIds |-> 0]
    /\ invoiced = {}
    /\ short = {}
    /\ exit = "running"
    /\ \E retries \in 0..MaxRetries : \E backoff_in_seconds \in Backoffs :
       \E allowed_exceptions \in AllowedSets :
          retry = RetryCall(retries, backoff_in_seconds, allowed_exceptions)

NextRetry == retry_call \/ retry_sleep

SpecRetry == InitRetry /\ [][NextRetry]_vars


(***************************************************************************)
(* Quantities the properties below speak of.                               *)
(***************************************************************************)
RECURSIVE SumOver(_, _)
SumOver(f, S) ==
    IF S = {} THEN 0
    ELSE LET x == CHOOSE y \in S : TRUE IN f[x] + SumOver(f, S \ {x})

Recorded == { o \in OrderIds : kaspi_orders[o].present }

\* Quantity of row r sold by the orders recorded as fulfilled.
FulfilledQty(r) ==
    SumOver([o \in OrderIds |->
                IF kaspi_orders[o].present /\ kaspi_orders[o].stock_name = r[2]
                THEN SumQty(kaspi_sold_products[o], r[1]) ELSE 0],
            OrderIds)

\* Quantity of row r reversed: one cancellation record per reversed line item.
ReversedQty(r) ==
    SumOver([o \in OrderIds |->
                IF kaspi_orders[o].present /\ kaspi_orders[o].stock_name = r[2]
                THEN kaspi_canceled_orders[<< o, r[1] >>]
                     * SumQty(kaspi_sold_products[o], r[1])
                ELSE 0],
            OrderIds)

\* Quantity of row r that order o asks for in the feed.
OrderQty(o, r) ==
    IF PickupStock(o) = r[2] THEN SumQty(FeedEntries(o), r[1]) ELSE 0

FulfilTasks == IF batch_kind = "fulfil" THEN TaskIds ELSE {}
CancelTasks == IF batch_kind = "cancel" THEN TaskIds ELSE {}

\* A fulfillment pipeline that returned at the idempotency gate.
GateHit(t) == tasks[t].pc = "done" /\ tasks[t].stock_name = ""

\* A line item of the fetched order that the stored stock cannot cover.
ShortItem(t) ==
    \E i \in DOMAIN tasks[t].products :
        get_stock_quantity(tasks[t].products[i].code, tasks[t].stock_name, TRUE)
            < tasks[t].products[i].quantity

(***************************************************************************)
(* C1: the stored quantity of every inventory row is never negative, and a *)
(* stock write whose new quantity is negative leaves the stored quantity   *)
(* unchanged, whatever the interleaving of the pipelines.                  *)
(***************************************************************************)
C1_StockNeverNegative ==
    /\ [](\A r \in Rows : inventory[r] >= 0)
    /\ [][\A t \in TaskIds :
            ( /\ tasks[t].pc \in {"update", "ppc_update"}
              /\ tasks[t].new_quantity < 0
              /\ tasks'[t].pc # tasks[t].pc )
            => inventory' = inventory]_vars

\* A commit pass has issued a write of a negative quantity and gone on.
C1_Witness ==
    \E t \in FulfilTasks :
        /\ tasks[t].pc = "save_order"
        /\ tasks[t].new_quantity < 0
        /\ \A r \in Rows : inventory[r] >= 0

(***************************************************************************)
(* C2: with no pipeline running, every row's stored quantity equals its    *)
(* initial quantity minus the quantities of the orders recorded as         *)
(* fulfilled plus the quantities reversed.                                 *)
(***************************************************************************)
C2_StockAccounting ==
    batch_kind = "none" =>
        \A r \in Rows :
            inventory[r] = inventory0[r] - FulfilledQty(r) + ReversedQty(r)

(***************************************************************************)
(* C3: when the fulfillment pipeline runs again on a recorded order, with  *)
(* no storage error in the run, it returns at the idempotency gate, and    *)
(* then the order has been persisted once and its stock decremented once.  *)
(***************************************************************************)
C3_FulfilTwiceOnce ==
    \A t \in FulfilTasks :
        (faults = 0 /\ kaspi_orders[tasks[t].order].present)
        => /\ tasks[t].pc \in {"sem", "is_order_processed", "create_invoice", "done"}
           /\ ( /\ GateHit(t)
                /\ Recorded = {tasks[t].order}
                /\ \A r \in OrderIds \X Products : kaspi_canceled_orders[r] = 0 )
              => \A r \in Rows :
                    inventory[r] = inventory0[r]
                        - SumQty(kaspi_sold_products[tasks[t].order], r[1])

(***************************************************************************)
(* C4: when the cancellation pipeline runs again on an order it has marked *)
(* canceled, each line item's stock has been restored once: the quantity   *)
(* is what it was when the reversal began plus the line item's quantity,   *)
(* and each line item has one cancellation record.                         *)
(***************************************************************************)
C4_CancelTwiceOnce ==
    \A t \in CancelTasks :
        ( /\ tasks[t].pc = "done"
          /\ tasks[t].products = << >>
          /\ kaspi_orders[tasks[t].order].is_canceled
          /\ before_cancel[tasks[t].order] # NotBegun
          /\ Recorded = {tasks[t].order} )
        => \A r \in Rows :
              /\ inventory[r] = before_cancel[tasks[t].order][r]
                                + SumQty(kaspi_sold_products[tasks[t].order], r[1])
              /\ SumQty(kaspi_sold_products[tasks[t].order], r[1]) > 0
                 => kaspi_canceled_orders[<< tasks[t].order, r[1] >>] = 1

(***************************************************************************)
(* C5: a fulfillment pipeline whose order has a line item short of stock   *)
(* never enters the commit pass, never persists the order, never calls     *)
(* create_invoice and ends on failed, also while other pipelines of the    *)
(* batch run.                                                              *)
(***************************************************************************)
C5_AllOrNothing ==
    \A t \in FulfilTasks :
        (tasks[t].products # << >> /\ ShortItem(t))
        => /\ tasks[t].pc \in {"check", "done"}
           /\ success[tasks[t].order] = 0
           /\ tasks[t].pc = "done" => failed[tasks[t].order] = 1

\* A short order has been turned down while another pipeline of the batch
\* is between its reads and its writes.
C5_Witness ==
    \E t, u \in FulfilTasks :
        /\ t # u
        /\ tasks[t].products # << >> /\ ShortItem(t)
        /\ tasks[t].pc = "done" /\ failed[tasks[t].order] = 1
        /\ tasks[u].pc \in {"commit_read", "update"}
        /\ ~kaspi_orders[tasks[t].order].present

C7_CapAndEveryPipelineRuns ==
    /\ [](Cardinality(Active) <= CONCURRENT_ORDER_LIMIT)
    /\ <>(TaskIds = CapOrderIds /\ \A t \in TaskIds : tasks[t].pc # "sem")

\* The last coroutine of a batch larger than the cap runs among N active ones.
C7_Witness ==
    /\ Len(tasks) > CONCURRENT_ORDER_LIMIT
    /\ tasks[Len(tasks)].pc \notin {"sem", "done"}
    /\ Cardinality(Active) = CONCURRENT_ORDER_LIMIT

(***************************************************************************)
(* C8: when process_orders returns, every order of the delivery batch is   *)
(* once on success or once on failed, never on both, and no other id is on *)
(* either list.                                                            *)
(***************************************************************************)
C8_ResultsPartitionBatch ==
    (pc = "in_process_orders" /\ AllDone) =>
        \A o \in OrderIds :
            success[o] + failed[o]
                = Cardinality({ t \in TaskIds : tasks[t].order = o })

\* A batch of two orders has ended with one order on each list.
C8_Witness ==
    /\ pc = "in_process_orders" /\ AllDone
    /\ Ids(success) # {} /\ Ids(failed) # {}

(***************************************************************************)
(* C9: once a cancellation pass between two fulfillment attempts has       *)
(* listed an order accepted in this run, the run is over: process_orders   *)
(* is not called again.                                                    *)
(***************************************************************************)
C9_NoAttemptAfterCancel ==
    seen_canceled => pc = "finished" /\ batch_kind = "none"

\* The run ended on such a pass, before the attempts were used up.
C9_Witness ==
    /\ seen_canceled
    /\ exit = "canceled_in_fulfillment"
    /\ attempt < MAX_ATTEMPTS

(***************************************************************************)
(* C10: an order of the delivery batch that is already recorded, whose     *)
(* pipeline returns at the idempotency gate, is not put on failed.         *)
(***************************************************************************)
C10_GateHitNotFailed ==
    \A t \in FulfilTasks :
        (GateHit(t) /\ kaspi_orders[tasks[t].order].present)
        => failed[tasks[t].order] = 0

(***************************************************************************)
(* C11: an order row has invoice_generated = TRUE only if a create_invoice *)
(* call for that order has answered True before.                           *)
(***************************************************************************)
C11_InvoiceFlagAfterInvoice ==
    \A o \in OrderIds :
        (kaspi_orders[o].present /\ kaspi_orders[o].invoice_generated)
        => o \in invoiced

(***************************************************************************)
(* C12: save_waybill_links puts a waybill on the line items of an order    *)
(* only if the order's invoice_generated was TRUE before the pass: the     *)
(* line items of an order whose flag is FALSE keep a null waybill.         *)
(***************************************************************************)
C12_WaybillOnlyWhenInvoiced ==
    [][\A o \in OrderIds :
          (kaspi_orders[o].present /\ ~kaspi_orders[o].invoice_generated)
          => \A i \in DOMAIN kaspi_sold_products[o] :
                ~kaspi_sold_products'[o][i].waybill]_vars

(***************************************************************************)
(* C13: when the cancellation pipeline has set is_canceled for an order,   *)
(* every persisted line item of the order has a cancellation record and    *)
(* has had its quantity added back to the stock, also a line item whose    *)
(* product is missing or inactive.                                         *)
(***************************************************************************)
C13_MarkedAfterEveryReversal ==
    \A t \in CancelTasks :
        ( /\ tasks[t].pc = "done"
          /\ tasks[t].products # << >>
          /\ ~tasks[t].raised
          /\ kaspi_orders[tasks[t].order].is_canceled
          /\ Recorded = {tasks[t].order} )
        => \A i \in DOMAIN tasks[t].products :
              LET code == tasks[t].products[i].code
                  row == << code, kaspi_orders[tasks[t].order].stock_name >>
              IN  /\ kaspi_canceled_orders[<< tasks[t].order, code >>] >= 1
                  /\ inventory[row] >= before_cancel[tasks[t].order][row]
                                        + SumQty(tasks[t].products, code)

(***************************************************************************)
(* C14: the phases of a run follow one another and never go back: the two  *)
(* archive passes, the acceptance pass, the fulfillment attempts, the      *)
(* waybill attempts.  No accept call is made while an archive pass runs,   *)
(* no fulfillment batch runs during acceptance or once the waybill         *)
(* attempts have begun.                                                    *)
(***************************************************************************)
PhaseOf(at) ==
    CASE at \in {"cancel_returned", "in_cancel_returned", "cancel_archive",
                 "in_cancel_archive"} -> 1
      [] at \in {"process_new_orders", "accepting"} -> 2
      [] at \in {"process_orders", "in_process_orders", "cancel_between_attempts",
                 "in_cancel_between_attempts"} -> 3
      [] at \in {"save_waybill_links", "cancel_between_waybill",
                 "in_cancel_between_waybill"} -> 4
      [] OTHER -> 5

C14_PhasesSequential ==
    /\ [][PhaseOf(pc') >= PhaseOf(pc)]_vars
    /\ [](PhaseOf(pc) = 2 => batch_kind = "none")
    /\ [](accept # NoAccept => pc = "accepting")
    /\ [](batch_kind = "fulfil" => pc = "in_process_orders")

\* The second waybill attempt is about to begin, after the earlier phases.
C14_Witness ==
    /\ pc = "save_waybill_links"
    /\ attempt = 2
    /\ Recorded # {}

(***************************************************************************)
(* C15: when process_new_orders returns with at least one order accepted   *)
(* and another order's acceptance failed after its retries, the run goes   *)
(* on to the fulfillment phase for the accepted orders.                    *)
(***************************************************************************)
C15_AcceptFailureDoesNotStopRun ==
    [][( /\ pc = "accepting"
         /\ pc' # "accepting"
         /\ accept.success # << >>
         /\ accept.failed # << >> )
       => /\ pc' = "process_orders"
          /\ new_order_ids' = Range(accept.success)]_vars

(***************************************************************************)
(* C16: an exception raised inside one order's pipeline stays there: the   *)
(* coroutine ends, a fulfillment order is put on failed and not on         *)
(* success, the batch function returns, and it returns only when every     *)
(* coroutine of the batch has run to its end.                              *)
(***************************************************************************)
C16_ExceptionStaysInPipeline ==
    /\ [](\A t \in TaskIds :
            tasks[t].raised
            => /\ tasks[t].pc = "done"
               /\ batch_kind = "fulfil"
                  => /\ failed[tasks[t].order] = 1
                     /\ success[tasks[t].order] = 0)
    /\ [][(batch_kind # "none" /\ batch_kind' = "none") => AllDone]_vars
    /\ []((\E t \in TaskIds : tasks[t].raised) => <>(batch_kind = "none"))

\* One pipeline has raised while another coroutine of the batch is running
\* and a third still waits for the semaphore.
C16_Witness ==
    \E t, u, w \in TaskIds :
        /\ tasks[t].raised
        /\ tasks[u].pc \notin {"sem", "done"}
        /\ tasks[w].pc = "sem"

(***************************************************************************)
(* C17: after update_stock_quantity_and_log has returned for a pair whose  *)
(* product, stock and inventory row are active, with new_quantity >= 0,    *)
(* get_stock_quantity answers new_quantity for the pair; with a negative   *)
(* new_quantity or a missing row it answers what it answered before.       *)
(***************************************************************************)
C17_WriteReadRoundTrip ==
    [][\A t \in FulfilTasks :
          ( /\ tasks[t].pc = "update"
            /\ tasks'[t].pc \in {"commit_read", "save_order"} )
          => \A code \in {tasks[t].products[tasks[t].idx].code} :
             \A name \in {tasks[t].stock_name} :
             \A new_quantity \in {tasks[t].new_quantity} :
             \A previous \in {get_stock_quantity(code, name, TRUE)} :
                get_stock_quantity(code, name, TRUE)' =
                   IF /\ new_quantity >= 0
                      /\ code \in catalog.products
                      /\ name \in catalog.stocks
                      /\ << code, name >> \in catalog.rows
                   THEN new_quantity
                   ELSE previous]_vars

(***************************************************************************)
(* C18: an order fulfilled by process_single_order and then cancelled by   *)
(* one cancel_single_order, with no storage error and no other recorded    *)
(* order: every row's quantity is what it was before the fulfillment, the  *)
(* order is marked canceled and each line item has exactly one             *)
(* cancellation record.                                                    *)
(***************************************************************************)
C18_FulfilThenCancelRoundTrip ==
    \A t \in CancelTasks :
        ( /\ faults = 0
          /\ tasks[t].pc = "done"
          /\ tasks[t].products # << >>
          /\ Recorded = {tasks[t].order} )
        => /\ kaspi_orders[tasks[t].order].is_canceled
           /\ \A r \in Rows : inventory[r] = inventory0[r]
           /\ \A i \in DOMAIN tasks[t].products :
                 kaspi_canceled_orders[<< tasks[t].order,
                                          tasks[t].products[i].code >>] = 1

(***************************************************************************)
(* C19: the row lock taken by a reversal's locked read is held until its   *)
(* write is applied, so two reversals running in one batch are never both  *)
(* between their read and their write of the same (product, stock) pair.   *)
(***************************************************************************)
C19_MutationsSerialized ==
    \A t, u \in CancelTasks :
        ( /\ t # u
          /\ tasks[t].pc = "ppc_update"
          /\ tasks[u].pc = "ppc_update" )
        => << tasks[t].products[tasks[t].idx].code, tasks[t].stock_name >>
           # << tasks[u].products[tasks[u].idx].code, tasks[u].stock_name >>

(***************************************************************************)
(* C20: an order whose fulfillment was turned down for insufficient stock  *)
(* is not run through the fulfillment pipeline again in the same run: no   *)
(* later pipeline of that order goes past the idempotency gate.            *)
(***************************************************************************)
C20_ShortOrderNotRetried ==
    \A t \in FulfilTasks :
        tasks[t].order \in short
        => tasks[t].pc \in {"sem", "is_order_processed", "done"}

(***************************************************************************)
(* C21: async_retry with retries = R invokes the wrapped operation at most *)
(* R + 1 times; the first result is returned with no further invocation;   *)
(* after R + 1 failures of allowed kinds the last failure is raised; a     *)
(* failure of another kind is raised after the invocation that met it,     *)
(* with no sleep; the k-th sleep lasts backoff * 2^(k-1).                  *)
(***************************************************************************)
RECURSIVE Pow2(_)
Pow2(n) == IF n = 0 THEN 1 ELSE 2 * Pow2(n - 1)

\* The invocations made so far, and the outcome of the latest.
RetryCalls == Len(retry.outcomes)
RetryLast == retry.outcomes[RetryCalls]

C21_RetryPolicy ==
    /\ [](retry.pc # "idle" =>
            /\ RetryCalls <= retry.retries + 1
            /\ \A i \in 1..(RetryCalls - 1) : retry.outcomes[i] \in retry.allowed
            /\ \A k \in DOMAIN retry.slept :
                  retry.slept[k] = retry.backoff * Pow2(k - 1)
            /\ retry.pc = "call" =>
                  RetryCalls <= retry.retries /\ Len(retry.slept) = RetryCalls
            /\ retry.pc = "returned" => RetryLast = "ok"
            /\ retry.pc = "raised" =>
                  /\ retry.error = RetryLast
                  /\ RetryLast # "ok"
                  /\ Len(retry.slept) = RetryCalls - 1
                  /\ RetryLast \in retry.allowed => RetryCalls = retry.retries + 1)
    /\ [][retry.pc \in {"returned", "raised"} => retry' = retry]_vars
    /\ [][(retry.pc = "call" /\ retry'.pc = "sleep") =>
            Len(retry'.outcomes) <= retry.retries]_vars

\* Three retries were used up: four invocations, sleeps of 2, 4 and 8 seconds,
\* and the fourth failure raised.
C21_Witness ==
    /\ retry.pc = "raised"
    /\ retry.retries = 3
    /\ retry.backoff = 2
    /\ Len(retry.outcomes) = 4
    /\ retry.slept = << 2, 4, 8 >>
    /\ retry.outcomes[1] # retry.outcomes[4]
    /\ retry.error = retry.outcomes[4]

(***************************************************************************)
(* C22: in the acceptance pass accept_order is called at most 3 times for  *)
(* a valid new order and never again after a call that answered True; an   *)
(* order without id or code, or whose status is not APPROVED_BY_BANK, gets *)
(* no accept call; every order of the feed ends in exactly one of success, *)
(* failed and skipped.                                                     *)
(***************************************************************************)
\* The collections of the pass that hold the order at position i of the feed.
HeldBy(i) ==
    { c \in {"success", "failed", "skipped"} :
        accept.orders[i].id \in Range(accept[c]) }

\* Calls at most 1 + max_retries, and one collection for each order the
\* loop has left behind.
AcceptPassBounds ==
    /\ \A i \in DOMAIN accept.orders :
          /\ accept.calls[i] <= 1 + max_retries
          /\ i < accept.i => Cardinality(HeldBy(i)) = 1
          /\ i > accept.i => accept.calls[i] = 0
    /\ Len(accept.success) + Len(accept.failed) + Len(accept.skipped)
          = accept.i - 1

\* No call for an order the loop has left behind, so none after a True.
AcceptCallsFrozen ==
    pc' = "accepting" =>
        \A i \in DOMAIN accept.orders :
            i < accept.i => accept'.calls[i] = accept.calls[i]

\* C22 as stated: no call for any order whose status is not APPROVED_BY_BANK.
C22_AcceptPass ==
    /\ [](/\ AcceptPassBounds
          /\ \A i \in DOMAIN accept.orders :
                (accept.orders[i].id = 0
                 \/ accept.orders[i].status # "APPROVED_BY_BANK")
                => accept.calls[i] = 0)
    /\ [][AcceptCallsFrozen]_vars

\* C22, amended: as stated, but the orders that get no call are those without
\* id or code and those that carry a status other than APPROVED_BY_BANK; an
\* order that carries no status is taken for a valid one and gets its calls.
C22_AcceptPass_Amended ==
    /\ [](/\ AcceptPassBounds
          /\ \A i \in DOMAIN accept.orders :
                /\ Skipped(accept.orders[i]) => accept.calls[i] = 0
                /\ (i < accept.i /\ ~Skipped(accept.orders[i]))
                   => accept.calls[i] >= 1)
    /\ [][AcceptCallsFrozen]_vars

\* The pass has ended: one order took its third call, one was skipped for
\* its status.
C22_Witness ==
    /\ pc = "accepting"
    /\ accept.i > Len(accept.orders)
    /\ \E i, j \in DOMAIN accept.orders :
          /\ accept.calls[i] = 3
          /\ accept.orders[j].status = "ACCEPTED_BY_MERCHANT"
          /\ accept.orders[j].id # 0
          /\ accept.calls[j] = 0

(***************************************************************************)
(* C23: the fulfillment loop and the waybill loop run only in a run whose  *)
(* acceptance pass accepted an order: when the pass accepts none, the run  *)
(* ends without a call of process_orders or save_waybill_links, and no     *)
(* order of the delivery page is recorded in it.                           *)
(***************************************************************************)
C23_LoopsOnlyAfterAcceptance ==
    /\ [](PhaseOf(pc) \in {3, 4} => new_order_ids # {})
    /\ [](batch_kind = "fulfil" => new_order_ids # {})
    /\ [][(pc = "accepting" /\ pc' # "accepting") =>
            /\ new_order_ids' = {} \/ new_order_ids' = Range(accept.success)
            /\ accept.success = << >> => (pc' = "finished" /\ new_order_ids' = {})]_vars
    /\ []((pc = "finished" /\ new_order_ids = {}) =>
            /\ Recorded = {}
            /\ \A r \in Rows : inventory[r] = inventory0[r])

\* The pass accepted nothing and the run is over with nothing recorded.
C23_Witness ==
    /\ pc = "finished"
    /\ exit = "no_new_orders"
    /\ new_order_ids = {}
    /\ Recorded = {}

(***************************************************************************)
(* C24: the cancellation pipeline on an order that was never recorded      *)
(* returns at its first test and leaves the stored state as it was: no     *)
(* quantity changes, no cancellation record is added, no order row is      *)
(* created or flagged.                                                     *)
(***************************************************************************)
C24_CancelUnrecordedNoEffect ==
    /\ [](\A t \in CancelTasks :
            ~kaspi_orders[tasks[t].order].present
            => /\ tasks[t].pc \in {"sem", "is_order_processed", "done"}
               /\ tasks[t].products = << >>)
    /\ [][\A t \in CancelTasks :
            ( /\ ~kaspi_orders[tasks[t].order].present
              /\ batch_kind' = "cancel"
              /\ tasks'[t] # tasks[t] )
            => UNCHANGED dbVars]_vars

\* The pipeline of an unrecorded order has ended while the reversal of a
\* recorded order of the same batch is under way.
C24_Witness ==
    \E t, u \in CancelTasks :
        /\ ~kaspi_orders[tasks[t].order].present
        /\ tasks[t].pc = "done"
        /\ canceled_ids[tasks[t].order] = 1
        /\ tasks[u].pc = "ppc_update"
        /\ \A r \in OrderIds \X Products :
              r[1] = tasks[t].order => kaspi_canceled_orders[r] = 0

(***************************************************************************)
(* C25: a reversal restores each line item to the stock location stored on *)
(* the order's own header: with two recorded orders that hold the same     *)
(* product code and were fulfilled from different locations, cancelling    *)
(* one adds its quantity back at its own location and leaves the other     *)
(* location's quantity as it was.                                          *)
(***************************************************************************)
C25_ReversalToOwnLocation ==
    \A t \in CancelTasks :
        LET own == kaspi_orders[tasks[t].order].stock_name IN
        /\ tasks[t].pc \in {"ppc_is_order_canceled", "ppc_get_stock_quantity",
                            "ppc_update", "ppc_commit"}
           => tasks[t].stock_name = own
        /\ ( /\ tasks[t].pc = "done"
             /\ ~tasks[t].raised
             /\ Len(tasks) = 1
             /\ kaspi_orders[tasks[t].order].is_canceled )
           => \A r \in Rows :
                 inventory[r] =
                    IF r[2] = own
                    THEN inventory0[r] + SumQty(kaspi_sold_products[tasks[t].order], r[1])
                    ELSE inventory0[r]

(***************************************************************************)
(* C26: two cancellation pipelines that run in one batch for the same      *)
(* order id, with no storage error, leave one cancellation record per line *)
(* item and do not restore a line item's stock a second time.              *)
(***************************************************************************)
C26_SameOrderTwiceOnce ==
    \A t, u \in CancelTasks :
        ( /\ t # u
          /\ tasks[t].order = tasks[u].order
          /\ tasks[t].pc = "done" /\ tasks[u].pc = "done"
          /\ faults = 0 )
        => /\ \A i \in DOMAIN kaspi_sold_products[tasks[t].order] :
                 kaspi_canceled_orders[
                     << tasks[t].order,
                        kaspi_sold_products[tasks[t].order][i].code >>] = 1
           /\ \A r \in Rows :
                 inventory[r] <= inventory0[r]
                    + SumQty(kaspi_sold_products[tasks[t].order], r[1])

(***************************************************************************)
(* C27: the cancellation record of a line item and the restoration of its  *)
(* stock are stored together: in every state of an archive pass over one   *)
(* order, also after a storage error inside process_product_cancellation,  *)
(* a product's stored quantities have gone up by the line item's quantity  *)
(* if and only if the line item's cancellation record is stored.           *)
(***************************************************************************)
C27_RecordAndRestoreAtomic ==
    \A t \in CancelTasks :
        Len(tasks) = 1 =>
            \A p \in Products :
                SumOver([r \in Rows |->
                            IF r[1] = p THEN inventory[r] - inventory0[r] ELSE 0],
                        Rows)
                  = kaspi_canceled_orders[<< tasks[t].order, p >>]
                    * SumQty(kaspi_sold_products[tasks[t].order], p)

C29_InvoiceFailureKeepsOrder ==
    \A t \in FulfilTasks :
        ( /\ tasks[t].pc = "done"
          /\ tasks[t].stock_name # ""
          /\ ~tasks[t].raised
          /\ kaspi_orders[tasks[t].order].present
          /\ tasks[t].order \notin invoiced
          /\ Len(tasks) = 1 /\ attempt = 1 /\ faults = 0
          /\ catalog.products = Products )
        => /\ failed[tasks[t].order] = 1 /\ success[tasks[t].order] = 0
           /\ ~kaspi_orders[tasks[t].order].invoice_generated
           /\ kaspi_sold_products[tasks[t].order]
                 = [i \in DOMAIN tasks[t].products |-> SoldRow(tasks[t].products[i])]
           /\ \A r \in Rows :
                 inventory[r] = inventory0[r]
                    - (IF r[2] = tasks[t].stock_name
                       THEN SumQty(tasks[t].products, r[1]) ELSE 0)

(***************************************************************************)
(* C30: once an order row exists, every later fulfillment pipeline of that *)
(* order returns at the idempotency gate: a pipeline is never past the     *)
(* gate with the row stored, except in the create_invoice call that        *)
(* follows its own save_order.                                             *)
(***************************************************************************)
C30_RecordedOrderStopsAtGate ==
    \A t \in FulfilTasks :
        kaspi_orders[tasks[t].order].present
        => tasks[t].pc \in {"sem", "is_order_processed", "create_invoice", "done"}

(***************************************************************************)
(* C31: whenever the fulfillment pipeline has recorded an order and calls  *)
(* create_invoice, at least one line item was fetched for the order; an    *)
(* order whose line-item fetch answered an empty list is neither recorded  *)
(* nor invoiced.                                                           *)
(***************************************************************************)
C31_RecordedOrderHasLineItems ==
    \A t \in FulfilTasks :
        /\ tasks[t].pc = "create_invoice" => tasks[t].products # << >>
        /\ ( /\ tasks[t].pc = "done"
             /\ tasks[t].stock_name # ""
             /\ tasks[t].products = << >>
             /\ faults = 0 )
           => /\ ~kaspi_orders[tasks[t].order].present
              /\ tasks[t].order \notin invoiced

(***************************************************************************)
(* C32: a failed stock read does not reach the stock: the quantity a       *)
(* reversal is about to write is the stored quantity of the (product,      *)
(* location) pair plus the returned quantity, never the fallback 0 of a    *)
(* failed read plus the returned quantity.                                 *)
(***************************************************************************)
C32_FailedReadNotWritten ==
    \A t \in CancelTasks :
        tasks[t].pc = "ppc_update"
        => tasks[t].new_quantity =
              inventory[<< tasks[t].products[tasks[t].idx].code,
                           tasks[t].stock_name >>]
              + tasks[t].products[tasks[t].idx].quantity

====
